---- MODULE Spec2Model ----
(***************************************************************************)
(* Model of the TicTacToe game session of src/src/app/app.ts.              *)
(*                                                                         *)
(* The session is a JavaScript object driven by onEvent().  A handler runs *)
(* synchronously up to the host requests it issues; the callbacks chained  *)
(* on a host request (.then) run later, when the host answers, and any     *)
(* event can be handled in between.  Callbacks that are separated only by  *)
(* a microtask (a .then on an already settled promise) run back to back,   *)
(* no event can be handled between them, so they form one step here.       *)
(* A host request is assumed not to fail; an answer that never comes is a  *)
(* behaviour that stutters.                                                *)
(***************************************************************************)
EXTENDS Integers, Sequences, FiniteSets, TLC

\* ---------------------------------------------------------------- bounds
NumUsers == 2
Users == 1..NumUsers

\* the button ids an event can carry: the nine cells and one id off the board
ButtonIds == 0..9

\* ------------------------------------------------------------- constants
gameSize == 3
undefined == -1

VARIABLES
    \* SaveBundle
    started, stale, gameBoardMessageDescriptor, currentPlayerIndex,
    lastTurnMessageId, acceptSelection, possibleTurnsCount, players,
    boardStates,
    \* host requests whose promise is not settled yet, and the winRow the
    \* callbacks of renderWinMessage have captured
    pending, winRow,
    \* what the host has been asked to do
    channelMembers, turnMsgs, turnMsgCount, endNotices,
    \* the user and the mark of the last accepted move
    lastTurn,
    \* what destroy() resolved with: <<>> while the instance is in use,
    \* <<"void">> or <<"bundle", the bundle>> once the host has let it go
    saved

bundle == <<started, stale, gameBoardMessageDescriptor, currentPlayerIndex,
            lastTurnMessageId, acceptSelection, possibleTurnsCount, players,
            boardStates>>
host == <<channelMembers, turnMsgs, turnMsgCount, endNotices>>
vars == <<bundle, pending, winRow, host, lastTurn, saved>>

\* the host delivers events and answers to an instance until it destroys it
live == saved = <<>>

\* ------------------------------------------------------------- helpers
Idx == 0..(gameSize - 1)
Cells == 0..(gameSize * gameSize - 1)

isDefined(value) == value # undefined

emptyBoard == [r \in Idx |-> [c \in Idx |-> undefined]]

\* players[i] of the code (0-based); undefined past the end of the array
playerAt(ps, i) == IF i >= 0 /\ i < Len(ps) THEN ps[i + 1] ELSE undefined

\* players.map(user => user.id).indexOf(id), 0-based, -1 when absent
indexOf(ps, id) ==
    IF \E i \in 1..Len(ps) : ps[i] = id
    THEN (CHOOSE i \in 1..Len(ps) : ps[i] = id /\ \A j \in 1..(i - 1) : ps[j] # id) - 1
    ELSE -1

\* players.splice(userIndex, 1)
splice(ps, userIndex) ==
    [i \in 1..(Len(ps) - 1) |-> IF i <= userIndex THEN ps[i] ELSE ps[i + 1]]

getCoordFromIndex(buttonId) ==
    LET rowIndex == buttonId \div gameSize
    IN  [rowIndex |-> rowIndex, index |-> buttonId - rowIndex * gameSize]

\* a notice sent to the channel with the Leave button attached
sent(kind, user) == [kind |-> kind, user |-> user]

\* ------------------------------------------------------------ checkForWin
\* the first row r with row[0] defined and row[0] = row[1] = row[2]
winRows(b) == {r \in Idx : isDefined(b[r][0]) /\ b[r][0] = b[r][1] /\ b[r][1] = b[r][2]}
winCols(b) == {c \in Idx : isDefined(b[0][c]) /\ b[0][c] = b[1][c] /\ b[1][c] = b[2][c]}
minOf(S) == CHOOSE x \in S : \A y \in S : x <= y

diagonal(b) == isDefined(b[0][0]) /\ b[0][0] = b[1][1] /\ b[1][1] = b[2][2]

\* the anti-diagonal compared with the wrong corner
antiDiagonalWrongCorner(b) == isDefined(b[2][0]) /\ b[2][0] = b[1][1] /\ b[1][1] = b[2][2]

antiDiagonal(b) == isDefined(b[2][0]) /\ b[2][0] = b[1][1] /\ b[1][1] = b[0][2]

checkForWin(b) ==
    IF winRows(b) # {}
    THEN LET rowIndex == minOf(winRows(b))
         IN  <<rowIndex * gameSize, rowIndex * gameSize + 1, rowIndex * gameSize + 2>>
    ELSE IF winCols(b) # {}
    THEN LET colIndex == minOf(winCols(b))
         IN  <<colIndex, colIndex + gameSize, colIndex + 2 * gameSize>>
    ELSE IF diagonal(b)
    THEN <<0, gameSize + 1, 2 * gameSize + 2>>
    ELSE IF antiDiagonal(b)
    THEN <<2 * gameSize, gameSize + 1, gameSize - 1>>
    ELSE <<>>

\* ------------------------------------------------------------------ Init
\* the state initialize() builds when it is given no bundle
Init ==
    /\ started = FALSE
    /\ stale = FALSE
    /\ gameBoardMessageDescriptor = FALSE
    /\ currentPlayerIndex = undefined
    /\ lastTurnMessageId = 0
    /\ acceptSelection = FALSE
    /\ possibleTurnsCount = gameSize * gameSize
    /\ players = <<>>
    /\ boardStates = emptyBoard
    /\ pending = {}
    /\ winRow = <<>>
    /\ channelMembers = {}
    /\ turnMsgs = {}
    /\ turnMsgCount = 0
    /\ endNotices = <<>>
    /\ lastTurn = [user |-> 0, mark |-> undefined]
    /\ saved = <<>>

\* ------------------------------------------------------- join and leave
\* startGame up to the board message's sendMessage; the callbacks are BoardSent
startGame ==
    /\ started' = TRUE
    /\ pending' = pending \cup {"boardSend"}

\* the game started by the first join already
startsGameOnFirstJoin(n) == n >= 1

\* the game started one join late
startsGameOnThirdJoin(n) == n = 3

\* players.length === 2: the join that starts the game
startsGame(n) == n = 2

\* a join let in after the game has started
joinNoticeStaleOnly(isStarted, isStale) ==
    IF isStale THEN "alreadyFinished" ELSE "none"

\* the private notice a join is answered with, "none" when the join is let in
joinNotice(isStarted, isStale) ==
    IF isStarted THEN "alreadyStarted"
    ELSE IF isStale THEN "alreadyFinished"
    ELSE "none"

handleJoin(user) ==
    /\ live
    /\ UNCHANGED saved
    /\ IF joinNotice(started, stale) # "none"
       THEN UNCHANGED vars
       ELSE /\ players' = Append(players, user)
            /\ channelMembers' = channelMembers \cup {user}
            /\ IF startsGame(Len(players'))
               THEN startGame
               ELSE UNCHANGED <<started, pending>>
            /\ UNCHANGED <<stale, gameBoardMessageDescriptor, currentPlayerIndex,
                           lastTurnMessageId, acceptSelection, possibleTurnsCount,
                           boardStates, winRow, turnMsgs, turnMsgCount,
                           endNotices, lastTurn>>

\* the notice and the removal skipped when one player is left behind
leftBehindMoreThanOne(n) == n > 1

\* players.length > 0 after the splice
leftBehind(n) == n > 0

handleLeave(user) ==
    /\ live
    /\ UNCHANGED saved
    /\ LET userIndex == indexOf(players, user)
       IN  IF userIndex # -1
           THEN /\ players' = splice(players, userIndex)
                /\ IF leftBehind(Len(players'))
                   THEN /\ IF ~stale
                           THEN endNotices' = Append(endNotices, sent("stale", user))
                           ELSE UNCHANGED endNotices
                        /\ channelMembers' = channelMembers \ {user}
                   ELSE UNCHANGED <<endNotices, channelMembers>>
                /\ stale' = TRUE
                /\ UNCHANGED <<started, gameBoardMessageDescriptor,
                               currentPlayerIndex, lastTurnMessageId,
                               acceptSelection, possibleTurnsCount, boardStates,
                               pending, winRow, turnMsgs, turnMsgCount, lastTurn>>
           ELSE UNCHANGED vars

\* ----------------------------------------------------- turn notification
\* the callback of sendTurnNotification that sends the "it's your turn"
\* message; players[currentPlayerIndex].id throws when that player is gone,
\* which ends the chain.  msgs are the turn messages left in the channel.
turnSend(cpi, rest, msgs) ==
    IF playerAt(players, cpi) = undefined
    THEN /\ pending' = rest
         /\ turnMsgs' = msgs
         /\ UNCHANGED turnMsgCount
    ELSE /\ turnMsgCount' = turnMsgCount + 1
         /\ turnMsgs' = msgs \cup {[id |-> turnMsgCount + 1, user |-> playerAt(players, cpi)]}
         /\ pending' = rest \cup {"turnSend"}

\* the previous turn message never deleted
lastTurnMessageForgotten(id) == FALSE

\* if (this.state.lastTurnMessageId)
hasLastTurnMessage(id) == id # 0

sendTurnNotification(cpi, rest) ==
    IF hasLastTurnMessage(lastTurnMessageId)
    THEN /\ pending' = rest \cup {"turnDelete"}
         /\ UNCHANGED <<turnMsgs, turnMsgCount>>
    ELSE turnSend(cpi, rest, turnMsgs)

withoutMsg(msgs, id) == {m \in msgs : m.id # id}

\* startGame's callbacks, run when the board message has been sent
BoardSent ==
    /\ live
    /\ UNCHANGED saved
    /\ "boardSend" \in pending
    /\ gameBoardMessageDescriptor' = TRUE
    /\ \E r \in {0, 1} :
        /\ currentPlayerIndex' = r
        /\ sendTurnNotification(r, pending \ {"boardSend"})
    /\ UNCHANGED <<started, stale, lastTurnMessageId, acceptSelection,
                   possibleTurnsCount, players, boardStates, winRow,
                   channelMembers, endNotices, lastTurn>>

\* the previous turn message has been deleted
TurnDeleteDone ==
    /\ live
    /\ UNCHANGED saved
    /\ "turnDelete" \in pending
    /\ turnSend(currentPlayerIndex, pending \ {"turnDelete"},
                withoutMsg(turnMsgs, lastTurnMessageId))
    /\ UNCHANGED <<bundle, winRow, channelMembers, endNotices, lastTurn>>

\* the turn message has been sent
TurnSent ==
    /\ live
    /\ UNCHANGED saved
    /\ "turnSend" \in pending
    /\ lastTurnMessageId' = turnMsgCount
    /\ acceptSelection' = TRUE
    /\ pending' = pending \ {"turnSend"}
    /\ UNCHANGED <<started, stale, gameBoardMessageDescriptor,
                   currentPlayerIndex, possibleTurnsCount, players,
                   boardStates, winRow, host, lastTurn>>

\* ------------------------------------------------------------- selection
\* renderWinMessage up to its deleteMessage
renderWinMessage(w) ==
    /\ stale' = TRUE
    /\ winRow' = w
    /\ pending' = pending \cup {"winDelete"}

\* the counter left as it is, and lowered twice
notDecremented(n) == n
decrementedTwice(n) == n - 2

\* possibleTurnsCount--
decremented(n) == n - 1

\* the occupied-cell test left out
cellNeverTaken(b, rowIndex, index) == FALSE

\* isDefined(this.state.boardStates[rowIndex][index])
cellTaken(b, rowIndex, index) == isDefined(b[rowIndex][index])

handleUserTurn(buttonId) ==
    LET rowIndex == getCoordFromIndex(buttonId).rowIndex
        index == getCoordFromIndex(buttonId).index
        marked == [boardStates EXCEPT ![rowIndex][index] = currentPlayerIndex]
    IN  IF cellTaken(boardStates, rowIndex, index)
        THEN UNCHANGED <<bundle, pending, winRow>>
        ELSE /\ possibleTurnsCount' = decremented(possibleTurnsCount)
             /\ boardStates' = marked
             /\ IF checkForWin(marked) # <<>>
                THEN /\ renderWinMessage(checkForWin(marked))
                     /\ UNCHANGED acceptSelection
                ELSE /\ acceptSelection' = FALSE
                     /\ pending' = pending \cup {"replaceControl"}
                     /\ UNCHANGED <<stale, winRow>>
             /\ UNCHANGED <<started, gameBoardMessageDescriptor,
                            currentPlayerIndex, lastTurnMessageId, players>>

\* the guard of line 204 without its stale test
selectionNoticeStaleIgnored(user, buttonId) ==
    IF ~(buttonId >= 0 /\ buttonId <= 8 /\ gameBoardMessageDescriptor)
    THEN "ignored"
    ELSE IF user # playerAt(players, currentPlayerIndex) THEN "notYourTurn"
    ELSE IF ~acceptSelection THEN "alreadyChose"
    ELSE "turn"

\* what a button click is answered with: "ignored" (the guard of line 204
\* fails), the transient notice "notYourTurn" or "alreadyChose", or "turn"
\* when it is handed to handleUserTurn
selectionNotice(user, buttonId) ==
    IF ~(~stale /\ buttonId >= 0 /\ buttonId <= 8 /\ gameBoardMessageDescriptor)
    THEN "ignored"
    ELSE IF user # playerAt(players, currentPlayerIndex) THEN "notYourTurn"
    ELSE IF ~acceptSelection THEN "alreadyChose"
    ELSE "turn"

handleButtonClick(user, buttonId) ==
    /\ live
    /\ UNCHANGED saved
    /\ IF selectionNotice(user, buttonId) = "turn"
       THEN /\ handleUserTurn(buttonId)
            /\ lastTurn' = IF boardStates' # boardStates
                           THEN [user |-> user, mark |-> currentPlayerIndex]
                           ELSE lastTurn
            /\ UNCHANGED host
       ELSE UNCHANGED vars

\* handleUserTurn's callback, run when the board's control has been replaced
\* the turn left with the player who just moved
samePlayer(cpi) == cpi

\* (currentPlayerIndex + 1) % 2
nextPlayer(cpi) == (cpi + 1) % 2

\* the draw test never true
drawNeverReached(n) == n < 0

\* possibleTurnsCount === 0
drawReached(n) == n = 0

endGameDraw(rest) ==
    /\ pending' = rest \cup {"drawDelete"}
    /\ UNCHANGED <<currentPlayerIndex, turnMsgs, turnMsgCount>>

ControlReplaced ==
    /\ live
    /\ UNCHANGED saved
    /\ "replaceControl" \in pending
    /\ IF drawReached(possibleTurnsCount)
       THEN endGameDraw(pending \ {"replaceControl"})
       ELSE /\ currentPlayerIndex' = nextPlayer(currentPlayerIndex)
            /\ sendTurnNotification(currentPlayerIndex', pending \ {"replaceControl"})
    /\ UNCHANGED <<started, stale, gameBoardMessageDescriptor,
                   lastTurnMessageId, acceptSelection, possibleTurnsCount,
                   players, boardStates, winRow, channelMembers, endNotices,
                   lastTurn>>

\* endGameDraw's callback, run when the last turn message has been deleted
DrawDeleteDone ==
    /\ live
    /\ UNCHANGED saved
    /\ "drawDelete" \in pending
    /\ pending' = pending \ {"drawDelete"}
    /\ turnMsgs' = withoutMsg(turnMsgs, lastTurnMessageId)
    /\ stale' = TRUE
    /\ endNotices' = Append(endNotices, sent("draw", 0))
    /\ UNCHANGED <<started, gameBoardMessageDescriptor, currentPlayerIndex,
                   lastTurnMessageId, acceptSelection, possibleTurnsCount,
                   players, boardStates, winRow, channelMembers, turnMsgCount,
                   lastTurn>>

\* renderWinMessage's first callback, run when the last turn message has been
\* deleted: it edits the board message, whose text reads players[0].id and
\* players[1].id and throws when one of them is gone (the second callback is
\* then skipped)
WinDeleteDone ==
    /\ live
    /\ UNCHANGED saved
    /\ "winDelete" \in pending
    /\ turnMsgs' = withoutMsg(turnMsgs, lastTurnMessageId)
    /\ IF playerAt(players, 0) = undefined \/ playerAt(players, 1) = undefined
       THEN pending' = pending \ {"winDelete"}
       ELSE pending' = (pending \ {"winDelete"}) \cup {"winEdit"}
    /\ UNCHANGED <<bundle, winRow, channelMembers, turnMsgCount, endNotices,
                   lastTurn>>

\* renderWinMessage's second callback, run when the board message has been
\* edited: winner.id throws when players has no entry at the winner's index
WinEditDone ==
    /\ live
    /\ UNCHANGED saved
    /\ "winEdit" \in pending
    /\ pending' = pending \ {"winEdit"}
    /\ LET rowIndex == getCoordFromIndex(winRow[1]).rowIndex
           index == getCoordFromIndex(winRow[1]).index
           winner == playerAt(players, boardStates[rowIndex][index])
       IN  IF winner = undefined
           THEN UNCHANGED endNotices
           ELSE endNotices' = Append(endNotices, sent("win", winner))
    /\ UNCHANGED <<bundle, winRow, channelMembers, turnMsgs, turnMsgCount,
                   lastTurn>>

\* --------------------------------------------------------------- onEvent
onEvent ==
    \/ \E user \in Users : handleJoin(user)
    \/ \E user \in Users : handleLeave(user)
    \/ \E user \in Users, buttonId \in ButtonIds : handleButtonClick(user, buttonId)

HostAnswer ==
    \/ BoardSent
    \/ TurnDeleteDone
    \/ TurnSent
    \/ ControlReplaced
    \/ DrawDeleteDone
    \/ WinDeleteDone
    \/ WinEditDone

Next == onEvent \/ HostAnswer

Spec == Init /\ [][Next]_vars

\* the host answers every request
FairSpec == Spec /\ WF_vars(HostAnswer)

\* ------------------------------------------------ destroy and initialize
\* destroy() resolves with the state unless the session is stale
destroy ==
    /\ live
    /\ saved' = IF ~stale THEN <<"bundle", bundle>> ELSE <<"void">>
    /\ UNCHANGED <<bundle, pending, winRow, host, lastTurn>>

\* a restore that starts from a closed selection window
restoredNotAccepting(b) == [b EXCEPT ![6] = FALSE]

\* this.state = saveBundle
restored(b) == b

\* initialize(saveBundle) on the instance that takes the session over: it
\* has the bundle's fields and none of the old instance's callbacks
initialize ==
    /\ Len(saved) = 2
    /\ LET b == restored(saved[2])
       IN  /\ started' = b[1]
           /\ stale' = b[2]
           /\ gameBoardMessageDescriptor' = b[3]
           /\ currentPlayerIndex' = b[4]
           /\ lastTurnMessageId' = b[5]
           /\ acceptSelection' = b[6]
           /\ possibleTurnsCount' = b[7]
           /\ players' = b[8]
           /\ boardStates' = b[9]
    /\ pending' = {}
    /\ winRow' = <<>>
    /\ saved' = <<>>
    /\ UNCHANGED <<host, lastTurn>>

NextRestore == Next \/ destroy \/ initialize

SpecRestore == Init /\ [][NextRestore]_vars

\* ------------------------------------------------- checkForWin on any board
\* initialize(saveBundle) takes the bundle as it is, so a session can hold any
\* board; CheckWin is line 245 of handleUserTurn on that board
Marks == {undefined, 0, 1}

InitWin ==
    /\ started = TRUE
    /\ stale = FALSE
    /\ gameBoardMessageDescriptor = TRUE
    /\ currentPlayerIndex = 0
    /\ lastTurnMessageId = 0
    /\ acceptSelection = FALSE
    /\ players = <<1, 2>>
    /\ boardStates \in [Idx -> [Idx -> Marks]]
    /\ possibleTurnsCount =
         Cardinality({c \in Idx \X Idx : ~isDefined(boardStates[c[1]][c[2]])})
    /\ pending = {}
    /\ winRow = <<>>
    /\ channelMembers = {1, 2}
    /\ turnMsgs = {}
    /\ turnMsgCount = 0
    /\ endNotices = <<>>
    /\ lastTurn = [user |-> 0, mark |-> undefined]
    /\ saved = <<>>

CheckWin ==
    /\ winRow' = checkForWin(boardStates)
    /\ UNCHANGED <<bundle, pending, host, lastTurn, saved>>

SpecWin == InitWin /\ [][CheckWin]_vars

\* ------------------------------------------------------------ properties
Active == started /\ ~stale
occupied == {cell \in Cells :
                isDefined(boardStates[getCoordFromIndex(cell).rowIndex][getCoordFromIndex(cell).index])}
hasNotice(kind) == \E i \in 1..Len(endNotices) : endNotices[i].kind = kind
moveAccepted == boardStates' # boardStates

\* C1: once the session is stale, no step changes boardStates,
\* currentPlayerIndex or acceptSelection.
C1_StaleFreezes ==
    [][stale => UNCHANGED <<boardStates, currentPlayerIndex, acceptSelection>>]_vars

\* C2 as stated: an Active session has currentPlayerIndex defined and two
\* players, from the moment started is set.
C2_ActiveHasCurrentPlayer ==
    Active => currentPlayerIndex \in {0, 1} /\ Len(players) = 2

\* C2 amended: an Active session has two players, and once its board message
\* is recorded its currentPlayerIndex is 0 or 1.
C2_ActiveAfterBoardSent ==
    /\ Active => Len(players) = 2
    /\ Active /\ gameBoardMessageDescriptor => currentPlayerIndex \in {0, 1}

C2_Witness ==
    Active /\ gameBoardMessageDescriptor /\ currentPlayerIndex = 1 /\ Len(players) = 2

\* C3: every "won the game" notice names the user who placed the winning
\* mark (the last accepted move, since a win makes the session stale).
C3_WinNoticeNamesWinner ==
    \A i \in 1..Len(endNotices) :
        endNotices[i].kind = "win" => endNotices[i].user = lastTurn.user

\* C4: possibleTurnsCount plus the number of occupied cells is gameSize squared.
C4_TurnsPlusOccupied ==
    possibleTurnsCount + Cardinality(occupied) = gameSize * gameSize

C4_Witness ==
    possibleTurnsCount = 5 /\ Cardinality(occupied) = 4

\* C5: a step that marks a cell lowers possibleTurnsCount by exactly 1, every
\* other step leaves it alone, and it is never negative.
C5_TurnsCountSteps ==
    /\ [](possibleTurnsCount >= 0)
    /\ [][IF moveAccepted
          THEN possibleTurnsCount' = possibleTurnsCount - 1
          ELSE possibleTurnsCount' = possibleTurnsCount]_vars

C5_Witness ==
    possibleTurnsCount = 6 /\ isDefined(lastTurn.mark) /\ pending = {"replaceControl"}

\* C6: an accepted move is never made with the currentPlayerIndex of the
\* accepted move before it.
C6_TurnAlternation ==
    [][moveAccepted /\ isDefined(lastTurn.mark)
        => currentPlayerIndex # lastTurn.mark /\ lastTurn'.mark = currentPlayerIndex]_vars

C6_Witness ==
    isDefined(lastTurn.mark) /\ acceptSelection /\ ~stale
        /\ currentPlayerIndex # lastTurn.mark /\ possibleTurnsCount = 4

\* C7: on every board checkForWin returns a line exactly when some row, column
\* or diagonal is held by one player, and what it returns are the three cells
\* of such a line.
markAt(b, cell) == b[getCoordFromIndex(cell).rowIndex][getCoordFromIndex(cell).index]
Lines ==
    {{0, 1, 2}, {3, 4, 5}, {6, 7, 8}, {0, 3, 6}, {1, 4, 7}, {2, 5, 8},
     {0, 4, 8}, {2, 4, 6}}
heldLines(b) ==
    {l \in Lines : \E p \in {0, 1} : \A cell \in l : markAt(b, cell) = p}
cellsOf(w) == {w[i] : i \in 1..Len(w)}

C7_CheckForWin ==
    LET w == checkForWin(boardStates)
    IN  /\ (w # <<>>) <=> (heldLines(boardStates) # {})
        /\ w # <<>> => Len(w) = 3 /\ cellsOf(w) \in heldLines(boardStates)
        /\ winRow # <<>> => winRow = w

C7_Witness ==
    winRow = <<2 * gameSize, gameSize + 1, gameSize - 1>>
        /\ heldLines(boardStates) = {{2, 4, 6}}

\* C8: a full board without a line leads to a stale session with the draw
\* notice broadcast; the draw notice is sent only once the last turn message
\* is gone, and such a session gets no win notice.
DrawnBoard == possibleTurnsCount = 0 /\ checkForWin(boardStates) = <<>>

C8_DrawResolution ==
    /\ [](DrawnBoard => ~hasNotice("win"))
    /\ [](hasNotice("draw")
            => DrawnBoard /\ stale /\ \A m \in turnMsgs : m.id # lastTurnMessageId)
    /\ [](DrawnBoard /\ pending = {} => stale /\ hasNotice("draw"))
    /\ (DrawnBoard ~> (stale /\ hasNotice("draw")))

C8_Witness ==
    DrawnBoard /\ stale /\ hasNotice("draw") /\ pending = {} /\ turnMsgs = {}

\* C9: the game starts on the second join and only then, started is never
\* reset, and a join handled once the game has started changes nothing.
C9_StartsOnce ==
    /\ [](Len(players) = 2 => started)
    /\ [][/\ (~started /\ started' => Len(players) = 1 /\ Len(players') = 2)
          /\ (started => started')
          /\ (started => \A user \in Users : handleJoin(user) => UNCHANGED vars)]_vars

C9_Witness ==
    started /\ ~stale /\ Len(players) = 2 /\ players[1] # players[2]
        /\ acceptSelection

\* C10: players never holds more than two users.
C10_AtMostTwoPlayers ==
    Len(players) <= 2

C10_Witness ==
    Len(players) = 2 /\ gameBoardMessageDescriptor

\* C11: in a stale session no button click, of any user and any button id,
\* has a step that changes boardStates, possibleTurnsCount or
\* currentPlayerIndex.
C11_StaleClickChangesNothing ==
    stale =>
        \A user \in Users, buttonId \in ButtonIds :
            ~ENABLED (/\ handleButtonClick(user, buttonId)
                      /\ <<boardStates, possibleTurnsCount, currentPlayerIndex>>'
                            # <<boardStates, possibleTurnsCount, currentPlayerIndex>>)

\* a stale session in which the current player's click on a free cell would
\* be taken, were it not for the stale test
C11_Witness ==
    /\ stale /\ live /\ gameBoardMessageDescriptor /\ acceptSelection
    /\ playerAt(players, currentPlayerIndex) # undefined
    /\ possibleTurnsCount > 0 /\ winRow = <<>>

\* C12: destroy() changes no field of the session and resolves with the
\* bundle of a session that is not stale, with nothing for a stale one, and
\* initialize(bundle) gives a session whose every field is as it was when
\* destroy() was called.
C12_RoundTrip ==
    /\ [](saved = <<"void">> => stale)
    /\ [](Len(saved) = 2 => ~stale /\ saved[1] = "bundle" /\ saved[2] = bundle)
    /\ [][saved' # saved => bundle' = bundle]_vars

\* a restored session: only initialize(bundle) leaves an Active session with
\* a move made, no selection awaited and no request pending
C12_Witness ==
    /\ live /\ Active /\ gameBoardMessageDescriptor /\ pending = {}
    /\ ~acceptSelection /\ possibleTurnsCount = 8

\* C13: a leave of a member that leaves another player behind in a session
\* not yet stale broadcasts the stale notice, has the leaver removed from the
\* channel and makes the session stale in that step; from then on the session
\* stays stale and no step marks a cell.
C13_LeaveMakesStale ==
    /\ [][\A user \in Users :
            /\ ~stale /\ indexOf(players, user) # -1 /\ Len(players) > 1
            /\ players' = splice(players, indexOf(players, user))
            => /\ stale'
               /\ endNotices' = Append(endNotices, sent("stale", user))
               /\ user \notin channelMembers']_vars
    /\ [][stale => stale' /\ boardStates' = boardStates]_vars

\* the player left behind is the current one and a selection was awaited
C13_Witness ==
    /\ stale /\ Len(players) = 1 /\ Len(endNotices) = 1
    /\ endNotices[1].kind = "stale" /\ endNotices[1].user # players[1]
    /\ gameBoardMessageDescriptor /\ acceptSelection
    /\ playerAt(players, currentPlayerIndex) # undefined

\* C14: a join of an Active session is answered "already started", a join of
\* a stale session "already finished", and neither changes the state.
C14_JoinNotices ==
    /\ Active => joinNotice(started, stale) = "alreadyStarted"
    /\ stale => joinNotice(started, stale) = "alreadyFinished"
    /\ started \/ stale =>
         \A user \in Users : ~ENABLED (handleJoin(user) /\ vars' # vars)

\* C15: the users of players are pairwise distinct.
C15_DistinctPlayers ==
    \A i, j \in 1..Len(players) : i # j => players[i] # players[j]

\* C16: a click that passes the guard of handleButtonClick but comes from a
\* user who is not the current player, or while no selection is awaited, or
\* on an occupied cell, has no step that changes a field of the session.
C16_RejectedSelectionChangesNothing ==
    \A user \in Users, buttonId \in Cells :
        /\ ~stale /\ gameBoardMessageDescriptor
        /\ \/ user # playerAt(players, currentPlayerIndex)
           \/ ~acceptSelection
           \/ buttonId \in occupied
        => ~ENABLED (handleButtonClick(user, buttonId) /\ bundle' # bundle)

C16_Witness ==
    /\ live /\ Active /\ gameBoardMessageDescriptor /\ acceptSelection
    /\ Cardinality(occupied) = 2 /\ players[1] # players[2]

\* C17: whenever acceptSelection is true, a turn message has been recorded
\* and no move has been accepted with the present currentPlayerIndex since;
\* while the session is not stale that message is in the channel and
\* addressed to players[currentPlayerIndex].
C17_AcceptWindow ==
    acceptSelection =>
        /\ lastTurnMessageId # 0
        /\ lastTurn.mark # currentPlayerIndex
        /\ ~stale => \E m \in turnMsgs :
                        /\ m.id = lastTurnMessageId
                        /\ m.user = playerAt(players, currentPlayerIndex)

\* C18: a turn message is sent only when no earlier one is left in the
\* channel, so the channel never holds two of them.
C18_OneTurnMessage ==
    /\ [](Cardinality(turnMsgs) <= 1)
    /\ [][turnMsgCount' # turnMsgCount
            => \A m \in turnMsgs' : m.id = turnMsgCount']_vars

C18_Witness ==
    turnMsgCount = 3 /\ Cardinality(turnMsgs) = 1 /\ acceptSelection /\ ~stale

\* C19: a session broadcasts at most one notice that carries the Leave button.
C19_OneEndNotice ==
    Len(endNotices) <= 1

\* C20: an Active session with its board message and no host request
\* outstanding awaits a selection, so the current player's click on a free
\* cell is taken.
C20_NoStuckGame ==
    live /\ Active /\ gameBoardMessageDescriptor /\ pending = {}
        => /\ acceptSelection
           /\ \A buttonId \in Cells :
                selectionNotice(playerAt(players, currentPlayerIndex), buttonId) = "turn"

TypeOK ==
    /\ started \in BOOLEAN /\ stale \in BOOLEAN
    /\ currentPlayerIndex \in {undefined, 0, 1}
    /\ Cardinality(pending) <= 1
    /\ possibleTurnsCount \in 0..9

====
